---------------------------- MODULE Spec2Model ----------------------------
(***************************************************************************)
(* A model of src/server/server.ts: an Express application with five       *)
(* routes (GET /ping, GET /random-person, GET /random-address,             *)
(* GET /random-login, POST /users), the two zod schemas it validates       *)
(* with, and the way its asynchronous handlers interleave on Node's event  *)
(* loop.                                                                   *)
(*                                                                         *)
(* JSON values are tagged records.  A number is kept as twice its value    *)
(* (field n2), so that the halves 17.5, 100.5 ... are representable and    *)
(* zod's int() check can fail.  Strings whose characters the code looks at *)
(* (the email, the registration date) are sequences of one-character       *)
(* strings; strings the code only copies or concatenates are TLA+ strings. *)
(***************************************************************************)
EXTENDS Integers, Sequences, FiniteSets, TLC

VARIABLES
    pc,       \* per request slot: "idle", "awaitFetch", "awaitJson", "done"
    req,      \* per slot: the request being handled (route and raw body)
    net,      \* per slot: the outbound call: "none", "pending", "stalled", "closed"
    fetches,  \* per slot: outbound GETs issued for the current request
    res,      \* per slot: the response sent (NoRes before)
    sent,     \* per slot: number of responses sent for the current request
    upstream, \* per slot: what the upstream call produced (NoOutcome before)
    log       \* per slot: what console.error recorded for the request

vars == <<pc, req, net, fetches, res, sent, upstream, log>>

---------------------------------------------------------------------------
(* JSON values *)

JUndef == [t |-> "undefined"]
JNull == [t |-> "null"]
JBool(b) == [t |-> "boolean", b |-> b]
JStr(s) == [t |-> "string", s |-> s]
JNum(n2) == [t |-> "number", n2 |-> n2]
JInt(k) == JNum(2 * k)
JObj(o) == [t |-> "object", o |-> o]
JArr(a) == [t |-> "array", a |-> a]

\* value[key] of a JavaScript object: undefined when the key is absent
Get(v, k) == IF k \in DOMAIN v.o THEN v.o[k] ELSE JUndef

IsInteger(v) == v.n2 % 2 = 0

---------------------------------------------------------------------------
(* zod issues.  Of a ZodIssue the model keeps code, path and message. *)

Key(k) == [key |-> k]
Idx(i) == [idx |-> i]

Issue(code, path, message) == [code |-> code, path |-> path, message |-> message]

\* zod's message for an invalid_type issue
TypeMessage(expected, v) ==
    IF v.t = "undefined" THEN "Required"
    ELSE "Expected " \o expected \o ", received " \o v.t

InvalidType(expected, v, path) == Issue("invalid_type", path, TypeMessage(expected, v))

Ok(value) == [issues |-> <<>>, value |-> value]
Fail(issues) == [issues |-> issues, value |-> JUndef]

---------------------------------------------------------------------------
(* Characters *)

UpperCase == {"A","B","C","D","E","F","G","H","I","J","K","L","M",
              "N","O","P","Q","R","S","T","U","V","W","X","Y","Z"}
LowerCase == {"a","b","c","d","e","f","g","h","i","j","k","l","m",
              "n","o","p","q","r","s","t","u","v","w","x","y","z"}
Digits == {"0","1","2","3","4","5","6","7","8","9"}
Letters == UpperCase \cup LowerCase
AlphaNum == Letters \cup Digits

LowerOf == [A |-> "a", B |-> "b", C |-> "c", D |-> "d", E |-> "e", F |-> "f",
            G |-> "g", H |-> "h", I |-> "i", J |-> "j", K |-> "k", L |-> "l",
            M |-> "m", N |-> "n", O |-> "o", P |-> "p", Q |-> "q", R |-> "r",
            S |-> "s", T |-> "t", U |-> "u", V |-> "v", W |-> "w", X |-> "x",
            Y |-> "y", Z |-> "z"]

\* String.prototype.toLowerCase, character by character
ToLowerCaseKeep(s) == s
ToLowerCase(s) == [i \in 1..Len(s) |-> IF s[i] \in UpperCase THEN LowerOf[s[i]] ELSE s[i]]

---------------------------------------------------------------------------
(* UserSchema (server.ts 29-33) *)

MinNameLen == 3
MaxNameLen == 12
MinAge == 18
MaxAge == 100
DefaultAge == 28

\* zod's email pattern, case-insensitive:
\*   ^(?!\.)(?!.*\.\.)([A-Z0-9_'+\-\.]*)[A-Z0-9_+-]@([A-Z0-9][A-Z0-9\-]*\.)+[A-Z]{2,}$
LocalChars == AlphaNum \cup {"_", "'", "+", "-", "."}
LocalLast == AlphaNum \cup {"_", "+", "-"}

DomainOk(d) ==
    LET dots == {i \in 1..Len(d) : d[i] = "."}
    IN  /\ dots # {}
        /\ LET lastDot == CHOOSE i \in dots : \A j \in dots : j <= i
           IN  /\ Len(d) - lastDot >= 2
               /\ \A i \in (lastDot + 1)..Len(d) : d[i] \in Letters
               /\ d[1] \in AlphaNum
               /\ \A i \in 1..lastDot : d[i] \in AlphaNum \cup {"-", "."}
               /\ \A i \in 1..(lastDot - 1) : d[i] = "." => d[i + 1] \in AlphaNum

EmailValid(s) ==
    LET ats == {i \in 1..Len(s) : s[i] = "@"}
    IN  /\ Cardinality(ats) = 1
        /\ LET at == CHOOSE i \in ats : TRUE
               local == SubSeq(s, 1, at - 1)
               domain == SubSeq(s, at + 1, Len(s))
           IN  /\ Len(local) >= 1
               /\ s[1] # "."
               /\ \A i \in 1..(Len(s) - 1) : ~(s[i] = "." /\ s[i + 1] = ".")
               /\ \A i \in 1..(Len(local) - 1) : local[i] \in LocalChars
               /\ local[Len(local)] \in LocalLast
               /\ Len(domain) >= 1
               /\ DomainOk(domain)

\* name: z.string().min(3, ...).max(12, ...)
NameParse(v, path) ==
    IF v.t # "string" THEN Fail(<<InvalidType("string", v, path)>>)
    ELSE IF Len(v.s) < MinNameLen
         THEN Fail(<<Issue("too_small", path, "Name must be at least 3 characters")>>)
    ELSE IF Len(v.s) > MaxNameLen
         THEN Fail(<<Issue("too_big", path, "Name must be at most 12 characters")>>)
    ELSE Ok(v)

\* ZodNumber runs every check of the chain and reports each one that fails:
\* .int(), .min(18, ...), .max(100, ...)
AgeChecks(v, path) ==
    (IF ~IsInteger(v)
     THEN <<Issue("invalid_type", path, "Expected integer, received float")>>
     ELSE <<>>)
    \o (IF v.n2 < 2 * MinAge
        THEN <<Issue("too_small", path, "Age must be at least 18")>>
        ELSE <<>>)
    \o (IF v.n2 > 2 * MaxAge
        THEN <<Issue("too_big", path, "Age must be at most 100")>>
        ELSE <<>>)

\* .default(28): undefined is replaced by the default before the inner schema
AgeDefault(v) == IF v.t = "undefined" THEN JInt(DefaultAge) ELSE v

\* age: z.number().int().min(18, ...).max(100, ...).optional().default(28)
AgeParse(v, path) ==
    LET w == AgeDefault(v)
    IN  IF w.t # "number" THEN Fail(<<InvalidType("number", w, path)>>)
        ELSE IF AgeChecks(w, path) # <<>> THEN Fail(AgeChecks(w, path))
        ELSE Ok(w)

\* email: z.string().email("Must be a valid email").toLowerCase()
EmailParse(v, path) ==
    IF v.t # "string" THEN Fail(<<InvalidType("string", v, path)>>)
    ELSE IF ~EmailValid(v.s)
         THEN Fail(<<Issue("invalid_string", path, "Must be a valid email")>>)
    ELSE Ok(JStr(ToLowerCase(v.s)))

\* z.object({name, age, email}).parse(data): every key of the shape is parsed
\* and the issues of all of them are collected in shape order; unknown keys go
UserSchemaShortCircuit(data) ==
    IF data.t # "object" THEN Fail(<<InvalidType("object", data, <<>>)>>)
    ELSE LET n == NameParse(Get(data, "name"), <<Key("name")>>)
             a == AgeParse(Get(data, "age"), <<Key("age")>>)
             e == EmailParse(Get(data, "email"), <<Key("email")>>)
         IN  IF n.issues # <<>> THEN Fail(n.issues)
             ELSE IF a.issues # <<>> THEN Fail(a.issues)
             ELSE IF e.issues # <<>> THEN Fail(e.issues)
             ELSE Ok(JObj([name |-> n.value, age |-> a.value, email |-> e.value]))
UserSchema(data) ==
    IF data.t # "object" THEN Fail(<<InvalidType("object", data, <<>>)>>)
    ELSE LET n == NameParse(Get(data, "name"), <<Key("name")>>)
             a == AgeParse(Get(data, "age"), <<Key("age")>>)
             e == EmailParse(Get(data, "email"), <<Key("email")>>)
             issues == n.issues \o a.issues \o e.issues
         IN  IF issues # <<>> THEN Fail(issues)
             ELSE Ok(JObj([name |-> n.value, age |-> a.value, email |-> e.value]))

\* err.path.join('.')
RECURSIVE Join(_)
Join(path) ==
    IF path = <<>> THEN ""
    ELSE LET h == Head(path)
             hs == IF "idx" \in DOMAIN h THEN ToString(h.idx) ELSE h.key
         IN  IF Len(path) = 1 THEN hs ELSE hs \o "." \o Join(Tail(path))

---------------------------------------------------------------------------
(* RandomUserApiResponseSchema (server.ts 9-27) *)

\* z.string()
ZString(v, path) ==
    IF v.t = "string" THEN <<>> ELSE <<InvalidType("string", v, path)>>

\* z.union([z.string(), z.number()]): one invalid_union issue when no option fits
ZStringOrNumber(v, path) ==
    IF v.t \in {"string", "number"} THEN <<>>
    ELSE <<Issue("invalid_union", path, "Invalid input")>>

\* name: z.object({first: z.string(), last: z.string()})
NameSchema(v, path) ==
    IF v.t # "object" THEN <<InvalidType("object", v, path)>>
    ELSE ZString(Get(v, "first"), path \o <<Key("first")>>)
         \o ZString(Get(v, "last"), path \o <<Key("last")>>)

\* location: z.object({country, city, postcode})
LocationSchema(v, path) ==
    IF v.t # "object" THEN <<InvalidType("object", v, path)>>
    ELSE ZString(Get(v, "country"), path \o <<Key("country")>>)
         \o ZString(Get(v, "city"), path \o <<Key("city")>>)
         \o ZStringOrNumber(Get(v, "postcode"), path \o <<Key("postcode")>>)

\* login: z.object({username: z.string()})
LoginSchema(v, path) ==
    IF v.t # "object" THEN <<InvalidType("object", v, path)>>
    ELSE ZString(Get(v, "username"), path \o <<Key("username")>>)

\* registered: z.object({date: z.string()})
RegisteredSchema(v, path) ==
    IF v.t # "object" THEN <<InvalidType("object", v, path)>>
    ELSE ZString(Get(v, "date"), path \o <<Key("date")>>)

\* one element of results
PersonSchema(v, path) ==
    IF v.t # "object" THEN <<InvalidType("object", v, path)>>
    ELSE NameSchema(Get(v, "name"), path \o <<Key("name")>>)
         \o LocationSchema(Get(v, "location"), path \o <<Key("location")>>)
         \o LoginSchema(Get(v, "login"), path \o <<Key("login")>>)
         \o RegisteredSchema(Get(v, "registered"), path \o <<Key("registered")>>)

\* z.array(...): every element is parsed, in order; no minimum length
RECURSIVE ElementsFrom(_, _, _)
ElementsFrom(a, i, path) ==
    IF i > Len(a) THEN <<>>
    ELSE PersonSchema(a[i], path \o <<Idx(i - 1)>>) \o ElementsFrom(a, i + 1, path)

ResultsSchema(v, path) ==
    IF v.t # "array" THEN <<InvalidType("array", v, path)>>
    ELSE ElementsFrom(v.a, 1, path)

\* RandomUserApiResponseSchema.parse(data): the issues (empty when data is
\* valid).  The schema transforms nothing, so the parsed value reads as data.
RandomUserApiResponseSchema(data) ==
    IF data.t # "object" THEN <<InvalidType("object", data, <<>>)>>
    ELSE ResultsSchema(Get(data, "results"), <<Key("results")>>)

---------------------------------------------------------------------------
(* new Date(string) and Date.prototype.toISOString (server.ts 124-125) *)

DigitVal == [c \in Digits |->
    CASE c = "0" -> 0 [] c = "1" -> 1 [] c = "2" -> 2 [] c = "3" -> 3 [] c = "4" -> 4
      [] c = "5" -> 5 [] c = "6" -> 6 [] c = "7" -> 7 [] c = "8" -> 8 [] c = "9" -> 9]

AllDigits(s, i, j) == \A k \in i..j : s[k] \in Digits

RECURSIVE Num(_, _, _)
Num(s, i, j) == IF j < i THEN 0 ELSE 10 * Num(s, i, j - 1) + DigitVal[s[j]]

\* days since 1970-01-01 of a proleptic Gregorian date (a day past the end of
\* the month runs over into the next month, as MakeDay does)
DaysFromCivil(y, m, d) ==
    LET yy == IF m <= 2 THEN y - 1 ELSE y
        era == yy \div 400
        yoe == yy - era * 400
        mp == IF m > 2 THEN m - 3 ELSE m + 9
        doy == (153 * mp + 2) \div 5 + d - 1
        doe == yoe * 365 + yoe \div 4 - yoe \div 100 + doy
    IN  era * 146097 + doe - 719468

CivilFromDays(z) ==
    LET zz == z + 719468
        era == zz \div 146097
        doe == zz - era * 146097
        yoe == (doe - doe \div 1460 + doe \div 36524 - doe \div 146096) \div 365
        doy == doe - (365 * yoe + yoe \div 4 - yoe \div 100)
        mp == (5 * doy + 2) \div 153
        d == doy - (153 * mp + 2) \div 5 + 1
        m == IF mp < 10 THEN mp + 3 ELSE mp - 9
        y == yoe + era * 400 + (IF m <= 2 THEN 1 ELSE 0)
    IN  [year |-> y, month |-> m, day |-> d]

NaN == [valid |-> FALSE, day |-> 0, minute |-> 0]
TimeValue(day, minute) ==
    [valid |-> TRUE, day |-> day + minute \div 1440, minute |-> minute % 1440]

\* "YYYY-MM-DD" at s[1..10]
DateFieldsOk(s) ==
    /\ AllDigits(s, 1, 4) /\ s[5] = "-" /\ AllDigits(s, 6, 7) /\ s[8] = "-"
    /\ AllDigits(s, 9, 10)
    /\ Num(s, 6, 7) \in 1..12
    /\ Num(s, 9, 10) \in 1..31

\* "THH:mm:ss" at s[11..19]
TimeFieldsOk(s) ==
    /\ s[11] = "T" /\ AllDigits(s, 12, 13) /\ s[14] = ":" /\ AllDigits(s, 15, 16)
    /\ s[17] = ":" /\ AllDigits(s, 18, 19)
    /\ Num(s, 12, 13) \in 0..23
    /\ Num(s, 15, 16) \in 0..59
    /\ Num(s, 18, 19) \in 0..59

\* "+HH:mm" or "-HH:mm" at s[i..i+5]
OffsetOk(s, i) ==
    /\ s[i] \in {"+", "-"} /\ AllDigits(s, i + 1, i + 2) /\ s[i + 3] = ":"
    /\ AllDigits(s, i + 4, i + 5)
    /\ Num(s, i + 1, i + 2) \in 0..23
    /\ Num(s, i + 4, i + 5) \in 0..59

OffsetMinutes(s, i) ==
    (IF s[i] = "-" THEN -1 ELSE 1) * (60 * Num(s, i + 1, i + 2) + Num(s, i + 4, i + 5))

CivilDay(s) == DaysFromCivil(Num(s, 1, 4), Num(s, 6, 7), Num(s, 9, 10))
MinuteOfDay(s) == 60 * Num(s, 12, 13) + Num(s, 15, 16)

\* new Date(s) for the ISO forms "YYYY-MM-DD", "YYYY-MM-DDTHH:mm:ssZ",
\* "YYYY-MM-DDTHH:mm:ss.sssZ" and "YYYY-MM-DDTHH:mm:ss+HH:mm"; a string of none
\* of these forms, among those the model draws, has time value NaN
DateParse(s) ==
    IF Len(s) = 10 /\ DateFieldsOk(s) THEN TimeValue(CivilDay(s), 0)
    ELSE IF Len(s) = 20 /\ DateFieldsOk(s) /\ TimeFieldsOk(s) /\ s[20] = "Z"
    THEN TimeValue(CivilDay(s), MinuteOfDay(s))
    ELSE IF /\ Len(s) = 24 /\ DateFieldsOk(s) /\ TimeFieldsOk(s) /\ s[20] = "."
            /\ AllDigits(s, 21, 23) /\ s[24] = "Z"
    THEN TimeValue(CivilDay(s), MinuteOfDay(s))
    ELSE IF Len(s) = 25 /\ DateFieldsOk(s) /\ TimeFieldsOk(s) /\ OffsetOk(s, 20)
    THEN TimeValue(CivilDay(s), MinuteOfDay(s) - OffsetMinutes(s, 20))
    ELSE NaN

Pad2(n) == IF n < 10 THEN "0" \o ToString(n) ELSE ToString(n)
Pad4(n) ==
    IF n < 10 THEN "000" \o ToString(n)
    ELSE IF n < 100 THEN "00" \o ToString(n)
    ELSE IF n < 1000 THEN "0" \o ToString(n)
    ELSE ToString(n)
YearString(y) ==
    IF y \in 0..9999 THEN Pad4(y)
    ELSE IF y < 0 THEN "-00" \o Pad4(-y)
    ELSE "+0" \o ToString(y)

\* toISOString() throws a RangeError on an invalid Date
ToISOStringNeverThrows(tv) == FALSE
ToISOStringThrows(tv) == ~tv.valid

\* toISOString().split('T')[0] of a valid time value: the UTC calendar date
FormattedDate(tv) ==
    LET c == CivilFromDays(tv.day)
    IN  YearString(c.year) \o "-" \o Pad2(c.month) \o "-" \o Pad2(c.day)

---------------------------------------------------------------------------
(* Requests, responses, errors *)

RandomRoutes == {"random-person", "random-address", "random-login"}

NoBody == [k |-> "none"]
Malformed == [k |-> "malformed"]
JsonBody(v) == [k |-> "json", v |-> v]

NoRes == [status |-> 0]
NoOutcome == [k |-> "none"]

Response(status, body) == [status |-> status, body |-> body]

ZodError(issues) == [name |-> "ZodError", issues |-> issues]
TypeError(message) == [name |-> "TypeError", message |-> message]
RangeError(message) == [name |-> "RangeError", message |-> message]
SyntaxError(message) == [name |-> "SyntaxError", message |-> message]

Return(response) == [k |-> "return", response |-> response]
Throw(error) == [k |-> "throw", error |-> error]

\* app.use(express.json()): runs before every route, whatever the method; a
\* body declared as JSON that does not parse is passed to Express's error
\* handler, which answers 400 with an HTML page and never calls the route
JsonMiddlewareRejects(request) == request.raw.k = "malformed"

BadRequest == Response(400, [html |-> "Bad Request"])

\* req.body as the route sees it
ReqBody(request) == IF request.raw.k = "json" THEN request.raw.v ELSE JUndef

---------------------------------------------------------------------------
(* Route handlers: the try block, then the catch block *)

\* app.get('/ping')
PingHandler(request) == Response(200, [message |-> "pong"])

Leaf(person, outer, inner) == Get(Get(person, outer), inner)

\* validatedData.results[0]: undefined for an empty list, and the first
\* property read on it throws
FirstPersonLast(data) == Get(data, "results").a[Len(Get(data, "results").a)]
FirstPerson(data) == Get(data, "results").a[1]
NoPerson(data) == Len(Get(data, "results").a) = 0
UndefinedPerson == TypeError("Cannot read properties of undefined (reading 'name')")

\* app.get('/random-person'), lines 46-54
RandomPersonTry(data) ==
    IF RandomUserApiResponseSchema(data) # <<>>
    THEN Throw(ZodError(RandomUserApiResponseSchema(data)))
    ELSE IF NoPerson(data) THEN Throw(UndefinedPerson)
    ELSE LET person == FirstPerson(data)
         IN  Return(Response(200,
                 [fullName |-> Leaf(person, "name", "first").s \o " "
                                \o Leaf(person, "name", "last").s,
                  country |-> Leaf(person, "location", "country").s]))

\* postcode.toString(): a string as it is, a number in decimal
PostcodeToString(v) ==
    IF v.t = "string" THEN v.s
    ELSE IF IsInteger(v) THEN ToString(v.n2 \div 2)
    ELSE ToString(v.n2 \div 2) \o ".5"

\* app.get('/random-address'), lines 94-102
RandomAddressTry(data) ==
    IF RandomUserApiResponseSchema(data) # <<>>
    THEN Throw(ZodError(RandomUserApiResponseSchema(data)))
    ELSE IF NoPerson(data)
    THEN Throw(TypeError("Cannot read properties of undefined (reading 'location')"))
    ELSE LET person == FirstPerson(data)
         IN  Return(Response(200,
                 [city |-> Leaf(person, "location", "city").s,
                  postcode |-> PostcodeToString(Leaf(person, "location", "postcode"))]))

\* app.get('/random-login'), lines 121-133
RandomLoginTry(data) ==
    IF RandomUserApiResponseSchema(data) # <<>>
    THEN Throw(ZodError(RandomUserApiResponseSchema(data)))
    ELSE IF NoPerson(data)
    THEN Throw(TypeError("Cannot read properties of undefined (reading 'registered')"))
    ELSE LET person == FirstPerson(data)
             registeredDate == DateParse(Leaf(person, "registered", "date").s)
         IN  IF ToISOStringThrows(registeredDate)
             THEN Throw(RangeError("Invalid time value"))
             ELSE LET formattedDate == FormattedDate(registeredDate)
                      username == Leaf(person, "login", "username").s
                  IN  Return(Response(200,
                          [username |-> username,
                           registeredDate |-> formattedDate,
                           summary |-> username \o " (registered on "
                                       \o formattedDate \o ")"]))

RouteTry(route, data) ==
    CASE route = "random-person" -> RandomPersonTry(data)
      [] route = "random-address" -> RandomAddressTry(data)
      [] route = "random-login" -> RandomLoginTry(data)

GenericError(route) ==
    CASE route = "random-person" -> "Failed to fetch random person"
      [] route = "random-address" -> "Failed to fetch random address"
      [] route = "random-login" -> "Failed to fetch random login"

LogLabel(route) ==
    CASE route = "random-person" -> "Error fetching random person:"
      [] route = "random-address" -> "Error fetching random address:"
      [] route = "random-login" -> "Error fetching random login:"

\* the catch blocks of the random-* routes (55-65, 103-113, 134-144)
RandomCatchLeaky(route, error) ==
    IF error.name = "ZodError"
    THEN Response(500, [error |-> "Invalid response from RandomUser API",
                        details |-> error.issues])
    ELSE Response(500, [error |-> GenericError(route), message |-> error.message])
RandomCatch(route, error) ==
    IF error.name = "ZodError"
    THEN Response(500, [error |-> "Invalid response from RandomUser API",
                        details |-> error.issues])
    ELSE Response(500, [error |-> GenericError(route)])

\* console.error(label, error) in the catch block
LogEntry(route, error) == <<[label |-> LogLabel(route), error |-> error]>>

\* error.errors.map(err => ({field: err.path.join('.'), message: err.message}))
Details(issues) ==
    [i \in 1..Len(issues) |-> [field |-> Join(issues[i].path), message |-> issues[i].message]]

\* app.post('/users'), lines 70-85
UsersHandler(request) ==
    LET parsed == UserSchema(ReqBody(request))
    IN  IF parsed.issues = <<>> THEN Response(201, parsed.value)
        ELSE Response(400, [error |-> "Validation failed", details |-> Details(parsed.issues)])

---------------------------------------------------------------------------
(* Inputs *)

MaxEmailLen == 6     \* emails enumerated up to this length
NameLenBound == 14   \* names of every length up to this one
MaxTail == 1         \* elements of results after the first

RECURSIVE SeqsUpTo(_, _)
SeqsUpTo(S, n) ==
    IF n = 0 THEN {<<>>}
    ELSE LET shorter == SeqsUpTo(S, n - 1)
         IN  shorter \cup {Append(q, c) : q \in {p \in shorter : Len(p) = n - 1}, c \in S}

RECURSIVE Repeat(_, _)
Repeat(c, n) == IF n = 0 THEN "" ELSE c \o Repeat(c, n - 1)

EmailAlphabet == {"a", "@", "."}
EnumeratedEmails == SeqsUpTo(EmailAlphabet, MaxEmailLen)
ChosenEmails == {
    <<"F", "o", "o", "@", "B", "A", "R", ".", "c", "o", "m">>,
    <<"a", "@", "b", ".", "i", "o">>,
    <<"a", ".", "b", "@", "C", "-", "d", ".", "O", "r", "g">>,
    <<"o", "'", "n", "e", "i", "l", "+", "x", "@", "s", "u", "b", ".", "e", "x", "a", "m", "p", "l", "e", ".", "c", "o", "m">>,
    <<"a", "@", "b", ".", "c", "1">>,
    <<"a", "@", "-", "b", ".", "c", "o", "m">>,
    <<"a", "'", "@", "b", ".", "c", "o", "m">>,
    <<"a", " ", "b", "@", "c", ".", "c", "o", "m">>,
    <<"a", "_", "1", "@", "b", "2", ".", "c", "o">> }

NameValues == {JStr(Repeat("x", n)) : n \in 0..NameLenBound}
               \cup {JStr("Ada"), JUndef, JNull, JInt(7)}
AgeValues == {JNum(n2) : n2 \in {-2, 0, 34, 35, 36, 37, 56, 57, 199, 200, 201, 202}}
              \cup {JUndef, JNull, JStr("20")}
EmailValues == {JStr(e) : e \in ChosenEmails} \cup {JUndef, JInt(7)}

\* a JSON object of the given keys, leaving out the undefined ones
ObjectOf(fields) ==
    JObj([k \in {j \in DOMAIN fields : fields[j] # JUndef} |-> fields[k]])

UserObject(n, a, e) == ObjectOf([name |-> n, age |-> a, email |-> e])

UserBodies ==
    {UserObject(n, a, e) : n \in NameValues, a \in AgeValues, e \in EmailValues}
    \cup {UserObject(n, a, JStr(e)) : n \in {JStr("Ada"), JStr("xx")},
                                      a \in {JUndef, JNum(35)}, e \in EnumeratedEmails}
    \cup {ObjectOf([name |-> JStr("Ada"), email |-> JStr(<<"F", "o", "o", "@", "B", "A", "R", ".", "c", "o", "m">>),
                    role |-> JStr("admin")]),
          JArr(<<>>), JArr(<<JStr("Ada")>>)}

Dates == {
    <<"2", "0", "2", "0", "-", "0", "5", "-", "0", "1", "T", "0", "0", ":", "0", "0", ":", "0", "0", "Z">>,
    <<"2", "0", "0", "7", "-", "0", "7", "-", "0", "9", "T", "0", "5", ":", "5", "1", ":", "5", "9", ".", "3", "9", "0", "Z">>,
    <<"2", "0", "2", "0", "-", "0", "5", "-", "0", "1", "T", "0", "0", ":", "3", "0", ":", "0", "0", "+", "0", "2", ":", "0", "0">>,
    <<"1", "9", "9", "9", "-", "1", "2", "-", "3", "1", "T", "2", "3", ":", "3", "0", ":", "0", "0", "-", "0", "1", ":", "0", "0">>,
    <<"2", "0", "2", "4", "-", "0", "2", "-", "2", "9">>,
    <<"2", "0", "2", "3", "-", "0", "2", "-", "2", "8">>,
    <<"2", "0", "2", "0", "-", "1", "3", "-", "0", "1", "T", "0", "0", ":", "0", "0", ":", "0", "0", "Z">>,
    <<"n", "o", "t", "-", "a", "-", "d", "a", "t", "e">>,
    <<"2", "0", "2", "1", "-", "0", "1", "-", "0", "1", "T", "0", "0", ":", "0", "0", ":", "0", "0", "+", "0", "5", ":", "0", "0">>,
    <<>> }

PersonOf(l) ==
    ObjectOf([name |-> ObjectOf([first |-> l.first, last |-> l.last]),
              location |-> ObjectOf([country |-> l.country, city |-> l.city,
                                     postcode |-> l.postcode]),
              login |-> ObjectOf([username |-> l.username]),
              registered |-> ObjectOf([date |-> l.date])])

Ada == [first |-> JStr("Ada"), last |-> JStr("Lovelace"), country |-> JStr("UK"),
        city |-> JStr("London"), postcode |-> JInt(12345), username |-> JStr("ada"),
        date |-> JStr(<<"2", "0", "2", "0", "-", "0", "5", "-", "0", "1", "T", "0", "0", ":", "0", "0", ":", "0", "0", "Z">>)]
Alan == [first |-> JStr("Alan"), last |-> JStr("Turing"), country |-> JStr("UK"),
         city |-> JStr("Wilmslow"), postcode |-> JStr("SK9 1AA"), username |-> JStr("alan"),
         date |-> JStr(<<"2", "0", "2", "0", "-", "0", "5", "-", "0", "1", "T", "0", "0", ":", "3", "0", ":", "0", "0", "+", "0", "2", ":", "0", "0">>)]

LeafKeys == {"first", "last", "country", "city", "postcode", "username", "date"}

ValidPersons ==
    {PersonOf([Ada EXCEPT !.postcode = p]) :
        p \in {JInt(12345), JStr("SW1A 1AA"), JNum(5), JInt(0)}}
    \cup {PersonOf([Ada EXCEPT !.date = JStr(d)]) : d \in Dates}
    \cup {PersonOf(Alan)}

InvalidPersons ==
    {PersonOf([Ada EXCEPT ![k] = bad]) : k \in LeafKeys, bad \in {JUndef, JNull, JBool(TRUE)}}
    \cup {PersonOf([Ada EXCEPT !.first = JInt(1), !.postcode = JNull, !.date = JInt(2020)]),
          ObjectOf([name |-> JStr("Ada Lovelace"), login |-> JArr(<<>>)]),
          JNull, JStr("Ada")}

Persons == ValidPersons \cup InvalidPersons
TailPersons == {PersonOf(Alan), PersonOf(Ada), PersonOf([Ada EXCEPT !.city = JUndef]), JNull}

ResultLists ==
    {<<>>} \cup {<<p>> \o t : p \in Persons, t \in SeqsUpTo(TailPersons, MaxTail)}

UpstreamBodies ==
    {JObj([results |-> JArr(l)]) : l \in ResultLists}
    \cup {JObj([results |-> JArr(<<PersonOf(Ada)>>), info |-> JObj([seed |-> JStr("abc")])]),
          ObjectOf([results |-> JUndef]),
          JObj([error |-> JStr("Uh oh, something has gone wrong.")]),
          JObj([results |-> JObj([first |-> PersonOf(Ada)])]),
          JObj([results |-> JStr("none")]), JObj([results |-> JNull]),
          JNull, JArr(<<PersonOf(Ada)>>), JStr("ok"), JInt(1)}

FetchErrors == {TypeError("fetch failed")}
JsonErrors == {SyntaxError("Unexpected token < in JSON at position 0"),
               TypeError("terminated")}

Queries == {"", "verbose=1"}
RequestBodies == {NoBody, Malformed, JsonBody(JObj([ping |-> JInt(1)]))}

PingRequests == {[route |-> "ping", query |-> q, raw |-> b] : q \in Queries, b \in RequestBodies}
UsersRequests ==
    {[route |-> "users", query |-> "", raw |-> JsonBody(b)] : b \in UserBodies}
    \cup {[route |-> "users", query |-> "", raw |-> Malformed]}
RandomRequests ==
    {[route |-> rt, query |-> "", raw |-> b] : rt \in RandomRoutes, b \in {NoBody, Malformed}}

---------------------------------------------------------------------------
(* The server: one slot per connection being served *)

InitOn(S) ==
    /\ pc = [r \in S |-> "idle"]
    /\ req = [r \in S |-> [route |-> "none", query |-> "", raw |-> NoBody]]
    /\ net = [r \in S |-> "none"]
    /\ fetches = [r \in S |-> 0]
    /\ res = [r \in S |-> NoRes]
    /\ sent = [r \in S |-> 0]
    /\ upstream = [r \in S |-> NoOutcome]
    /\ log = [r \in S |-> <<>>]

\* res.json(...) / res.status(...).json(...): the one response of the request
Respond(r, response) ==
    /\ res' = [res EXCEPT ![r] = response]
    /\ sent' = [sent EXCEPT ![r] = @ + 1]
    /\ pc' = [pc EXCEPT ![r] = "done"]

\* a request whose handler runs to its response in one turn of the event loop
Synchronous(r, request, response) ==
    /\ req' = [req EXCEPT ![r] = request]
    /\ Respond(r, IF JsonMiddlewareRejects(request) THEN BadRequest ELSE response)
    /\ UNCHANGED <<net, fetches, upstream, log>>

\* GET /ping, for a request among requests
GetPing(r, requests) ==
    /\ pc[r] = "idle"
    /\ \E request \in requests :
          /\ request.route = "ping"
          /\ Synchronous(r, request, PingHandler(request))

\* POST /users, for a request among requests
PostUsers(r, requests) ==
    /\ pc[r] = "idle"
    /\ \E request \in requests :
          /\ request.route = "users"
          /\ Synchronous(r, request, UsersHandler(request))

\* GET /random-*, for a request among requests: up to the first await,
\* fetch('https://randomuser.me/api/')
GetRandom(r, requests) ==
    /\ pc[r] = "idle"
    /\ \E request \in requests :
          /\ request.route \in RandomRoutes
          /\ req' = [req EXCEPT ![r] = request]
          /\ IF JsonMiddlewareRejects(request)
             THEN /\ Respond(r, BadRequest)
                  /\ UNCHANGED <<net, fetches>>
             ELSE /\ pc' = [pc EXCEPT ![r] = "awaitFetch"]
                  /\ net' = [net EXCEPT ![r] = "pending"]
                  /\ fetches' = [fetches EXCEPT ![r] = @ + 1]
                  /\ UNCHANGED <<res, sent>>
    /\ UNCHANGED <<upstream, log>>

\* a continuation of a handler may run when its own awaited promise settles
CanSettleSerial(r) == net[r] = "pending" /\ \A q \in DOMAIN net : net[q] # "stalled"
CanSettle(r) == net[r] = "pending"

\* the catch block: log, then answer
Caught(r, error) ==
    /\ log' = [log EXCEPT ![r] = LogEntry(req[r].route, error)]
    /\ Respond(r, RandomCatch(req[r].route, error))
    /\ net' = [net EXCEPT ![r] = "closed"]
    /\ UNCHANGED <<req, fetches>>

\* fetch() fulfils with the response headers; response.json() starts reading
FetchFulfilled(r) ==
    /\ pc[r] = "awaitFetch" /\ CanSettle(r)
    /\ pc' = [pc EXCEPT ![r] = "awaitJson"]
    /\ UNCHANGED <<req, net, fetches, res, sent, upstream, log>>

\* fetch() rejects (no connection): no retry, the catch block answers
FetchRejectedRetry(r, error) ==
    /\ pc[r] = "awaitFetch" /\ CanSettle(r)
    /\ IF fetches[r] < 2
       THEN /\ fetches' = [fetches EXCEPT ![r] = @ + 1]
            /\ UNCHANGED <<pc, req, net, res, sent, upstream, log>>
       ELSE /\ upstream' = [upstream EXCEPT ![r] = [k |-> "fetchRejected", error |-> error]]
            /\ Caught(r, error)
FetchRejected(r, error) ==
    /\ pc[r] = "awaitFetch" /\ CanSettle(r)
    /\ upstream' = [upstream EXCEPT ![r] = [k |-> "fetchRejected", error |-> error]]
    /\ Caught(r, error)

\* response.json() rejects: the body is not JSON, or reading it failed
JsonRejected(r, error) ==
    /\ pc[r] = "awaitJson" /\ CanSettle(r)
    /\ upstream' = [upstream EXCEPT ![r] = [k |-> "jsonRejected", error |-> error]]
    /\ Caught(r, error)

\* response.json() fulfils with data: the rest of the try block, and the
\* catch block if it throws
JsonFulfilled(r, data) ==
    /\ pc[r] = "awaitJson" /\ CanSettle(r)
    /\ upstream' = [upstream EXCEPT ![r] = [k |-> "json", data |-> data]]
    /\ LET outcome == RouteTry(req[r].route, data)
       IN  IF outcome.k = "return"
           THEN /\ Respond(r, outcome.response)
                /\ net' = [net EXCEPT ![r] = "closed"]
                /\ UNCHANGED <<req, fetches, log>>
           ELSE Caught(r, outcome.error)

\* the upstream never answers: the code sets no timeout and no abort signal
UpstreamStalls(r) ==
    /\ net[r] = "pending"
    /\ net' = [net EXCEPT ![r] = "stalled"]
    /\ UNCHANGED <<pc, req, fetches, res, sent, upstream, log>>

\* the connection is over; the slot serves the next request.  Nothing of the
\* request outlives it: the code keeps no state between requests.
Finish(r) ==
    /\ pc[r] = "done"
    /\ pc' = [pc EXCEPT ![r] = "idle"]
    /\ req' = [req EXCEPT ![r] = [route |-> "none", query |-> "", raw |-> NoBody]]
    /\ net' = [net EXCEPT ![r] = "none"]
    /\ fetches' = [fetches EXCEPT ![r] = 0]
    /\ res' = [res EXCEPT ![r] = NoRes]
    /\ sent' = [sent EXCEPT ![r] = 0]
    /\ upstream' = [upstream EXCEPT ![r] = NoOutcome]
    /\ log' = [log EXCEPT ![r] = <<>>]

---------------------------------------------------------------------------
(* One request at a time, over the whole input space *)

One == {1}

Init == InitOn(One)

Next ==
    \E r \in One :
        \/ GetPing(r, PingRequests)
        \/ PostUsers(r, UsersRequests)
        \/ GetRandom(r, RandomRequests)
        \/ FetchFulfilled(r)
        \/ \E e \in FetchErrors : FetchRejected(r, e)
        \/ \E e \in JsonErrors : JsonRejected(r, e)
        \/ \E d \in UpstreamBodies : JsonFulfilled(r, d)
        \/ UpstreamStalls(r)
        \/ Finish(r)

Spec == Init /\ [][Next]_vars

---------------------------------------------------------------------------
(* Several requests in flight.  Node runs one continuation at a time: every
   action above is one turn of the event loop.  A pending upstream call
   either settles or stalls for good; the loop runs the continuation of every
   promise that settles. *)

NSlots == 2
Concurrent == 1..NSlots

ConcUserBodies == {UserObject(JStr("Ada"), JUndef, JStr(<<"a", "@", "b", ".", "i", "o">>)),
                   UserObject(JStr("xx"), JNum(35), JUndef)}
ConcRequests ==
    {[route |-> "ping", query |-> "", raw |-> b] : b \in {NoBody, Malformed}}
    \cup {[route |-> "users", query |-> "", raw |-> JsonBody(b)] : b \in ConcUserBodies}
    \cup {[route |-> rt, query |-> "", raw |-> NoBody] : rt \in RandomRoutes}
    \cup {[route |-> "random-person", query |-> "", raw |-> Malformed]}
ConcUpstreamBodies == {JObj([results |-> JArr(<<PersonOf(Ada)>>)]), JObj([results |-> JArr(<<>>)])}

Settle(r) ==
    \/ FetchFulfilled(r)
    \/ \E e \in FetchErrors : FetchRejected(r, e)
    \/ \E e \in JsonErrors : JsonRejected(r, e)
    \/ \E d \in ConcUpstreamBodies : JsonFulfilled(r, d)

InitConc == InitOn(Concurrent)

NextConc ==
    \E r \in Concurrent :
        \/ GetPing(r, ConcRequests)
        \/ PostUsers(r, ConcRequests)
        \/ GetRandom(r, ConcRequests)
        \/ Settle(r)
        \/ UpstreamStalls(r)
        \/ Finish(r)

SpecConc ==
    /\ InitConc
    /\ [][NextConc]_vars
    /\ \A r \in Concurrent : WF_vars(Settle(r))

---------------------------------------------------------------------------
(* Properties *)

Served == DOMAIN pc

\* slot r holds an answered request of the route that got past express.json()
Answered(r, route) ==
    pc[r] = "done" /\ req[r].route = route /\ req[r].raw.k # "malformed"

\* the field rules of UserInput, stated on the submitted body
FieldOf(b, k) == IF b.t = "object" THEN Get(b, k) ELSE JUndef

NameViolated(b) ==
    LET n == FieldOf(b, "name")
    IN  ~(n.t = "string" /\ Len(n.s) >= 3 /\ Len(n.s) <= 12)

AgeInRange(a) == a.n2 >= 2 * 18 /\ a.n2 <= 2 * 100

AgeViolated(b) ==
    LET a == FieldOf(b, "age")
    IN  ~(a.t = "undefined" \/ (a.t = "number" /\ a.n2 % 2 = 0 /\ AgeInRange(a)))

EmailViolated(b) ==
    LET e == FieldOf(b, "email")
    IN  ~(e.t = "string" /\ EmailValid(e.s))

ViolatedFields(b) ==
    {f \in {"name", "age", "email"} :
        \/ f = "name" /\ NameViolated(b)
        \/ f = "age" /\ AgeViolated(b)
        \/ f = "email" /\ EmailViolated(b)}

IsValidationFailed(response) ==
    /\ response.status = 400
    /\ "error" \in DOMAIN response.body
    /\ response.body.error = "Validation failed"

EntriesFor(details, f) == {i \in 1..Len(details) : details[i].field = f}

\* age breaks two rules at once when it is a number that is neither an
\* integer nor in 18..100
AgeRulesViolated(b) ==
    LET a == FieldOf(b, "age")
    IN  IF a.t = "number" /\ a.n2 % 2 # 0 /\ ~AgeInRange(a) THEN 2 ELSE 1

\* C1 as stated: POST /users answers 400 "Validation failed" exactly when a
\* field of the body violates its rule, and details then holds exactly one
\* entry for each violated field and none for any other field.
C1_OneEntryPerViolatedField ==
    \A r \in Served :
        Answered(r, "users") =>
            LET b == ReqBody(req[r])
                V == ViolatedFields(b)
            IN  /\ IsValidationFailed(res[r]) <=> V # {}
                /\ V # {} =>
                      LET details == res[r].body.details
                      IN  /\ \A f \in V : Cardinality(EntriesFor(details, f)) = 1
                          /\ \A i \in 1..Len(details) : details[i].field \in V

\* C1 as amended: for a body that is a JSON object, POST /users answers 400
\* "Validation failed" exactly when a field violates its rule; details then
\* names every violated field and no other, with one entry per violated rule:
\* name and email once, age once or, when it is a non-integer outside
\* 18..100, twice.
C1_OneEntryPerViolatedRule ==
    \A r \in Served :
        (Answered(r, "users") /\ ReqBody(req[r]).t = "object") =>
            LET b == ReqBody(req[r])
                V == ViolatedFields(b)
            IN  /\ IsValidationFailed(res[r]) <=> V # {}
                /\ V # {} =>
                      LET details == res[r].body.details
                      IN  /\ \A i \in 1..Len(details) : details[i].field \in V
                          /\ \A f \in V \ {"age"} :
                                Cardinality(EntriesFor(details, f)) = 1
                          /\ "age" \in V =>
                                Cardinality(EntriesFor(details, "age")) = AgeRulesViolated(b)

\* a body whose three fields all fail, the age on two rules, has been answered
C1_Witness ==
    \E r \in Served :
        /\ Answered(r, "users") /\ ReqBody(req[r]).t = "object"
        /\ ViolatedFields(ReqBody(req[r])) = {"name", "age", "email"}
        /\ AgeRulesViolated(ReqBody(req[r])) = 2
        /\ IsValidationFailed(res[r])
        /\ Len(res[r].body.details) = 4

\* C2: a POST /users body whose fields all satisfy their rules is answered
\* 201 with the normalized input: the name as submitted, the age as submitted
\* or 28 when absent, the email in lowercase.
C2_NormalizedUser ==
    \A r \in Served :
        (Answered(r, "users") /\ ReqBody(req[r]).t = "object"
            /\ ViolatedFields(ReqBody(req[r])) = {}) =>
            LET b == ReqBody(req[r])
                email == Get(b, "email").s
            IN  /\ res[r].status = 201
                /\ res[r].body.t = "object"
                /\ DOMAIN res[r].body.o = {"name", "age", "email"}
                /\ res[r].body.o.name = Get(b, "name")
                /\ res[r].body.o.age = (IF Get(b, "age").t = "undefined"
                                        THEN JNum(56) ELSE Get(b, "age"))
                /\ res[r].body.o.email.t = "string"
                /\ Len(res[r].body.o.email.s) = Len(email)
                /\ \A i \in 1..Len(email) :
                      res[r].body.o.email.s[i] =
                          (IF email[i] \in UpperCase THEN LowerOf[email[i]] ELSE email[i])

\* a valid body without age and with capitals in the email has been answered
C2_Witness ==
    \E r \in Served :
        /\ Answered(r, "users") /\ ReqBody(req[r]).t = "object"
        /\ ViolatedFields(ReqBody(req[r])) = {}
        /\ "age" \notin DOMAIN ReqBody(req[r]).o
        /\ \E i \in 1..Len(Get(ReqBody(req[r]), "email").s) :
              Get(ReqBody(req[r]), "email").s[i] \in UpperCase
        /\ res[r].status = 201

\* the response of a random-* route to upstream data, handled alone
ResponseTo(route, data) ==
    LET outcome == RouteTry(route, data)
    IN  IF outcome.k = "return" THEN outcome.response
        ELSE RandomCatch(route, outcome.error)

\* slot r holds an answered random-* request whose upstream call gave JSON
AnsweredJson(r) ==
    /\ pc[r] = "done" /\ req[r].route \in RandomRoutes
    /\ upstream[r].k = "json"

\* the expected shape {results: [one-or-more Person records]}
IsString(v) == v.t = "string"
IsObject(v) == v.t = "object"

IsPerson(v) ==
    /\ IsObject(v)
    /\ IsObject(Get(v, "name"))
    /\ IsString(Leaf(v, "name", "first")) /\ IsString(Leaf(v, "name", "last"))
    /\ IsObject(Get(v, "location"))
    /\ IsString(Leaf(v, "location", "country")) /\ IsString(Leaf(v, "location", "city"))
    /\ Leaf(v, "location", "postcode").t \in {"string", "number"}
    /\ IsObject(Get(v, "login")) /\ IsString(Leaf(v, "login", "username"))
    /\ IsObject(Get(v, "registered")) /\ IsString(Leaf(v, "registered", "date"))

HasResultsList(data) == IsObject(data) /\ Get(data, "results").t = "array"

ExpectedShape(data) ==
    /\ HasResultsList(data)
    /\ Len(Get(data, "results").a) >= 1
    /\ \A i \in 1..Len(Get(data, "results").a) : IsPerson(Get(data, "results").a[i])

IsInvalidResponse(response) ==
    /\ response.status = 500
    /\ response.body.error = "Invalid response from RandomUser API"

\* C3 as stated: on each random-* route, upstream JSON that deviates from
\* {results: [one-or-more Person records]} is answered 500 "Invalid response
\* from RandomUser API".
C3_DeviationIsValidationFailure ==
    \A r \in Served :
        (AnsweredJson(r) /\ ~ExpectedShape(upstream[r].data)) => IsInvalidResponse(res[r])

\* the model's only departure from C3 is the empty list
C3_ExceptEmptyList ==
    \A r \in Served :
        (AnsweredJson(r) /\ ~ExpectedShape(upstream[r].data)
            /\ ~(HasResultsList(upstream[r].data)
                 /\ Get(upstream[r].data, "results").a = <<>>))
        => IsInvalidResponse(res[r])

\* data with results cut down to its first element
FirstOnly(data) ==
    JObj([k \in DOMAIN data.o |->
            IF k = "results" THEN JArr(<<data.o.results.a[1]>>) ELSE data.o[k]])

HasTail(data) == HasResultsList(data) /\ Len(Get(data, "results").a) >= 2

TailIsValid(data) ==
    \A i \in 2..Len(Get(data, "results").a) : IsPerson(Get(data, "results").a[i])

\* C4 as stated: the response of a random-* route is a function of
\* results[0] alone, whatever results[1..] holds, valid records or not.
C4_FirstRecordAlone ==
    \A r \in Served :
        (AnsweredJson(r) /\ HasTail(upstream[r].data)) =>
            res[r] = ResponseTo(req[r].route, FirstOnly(upstream[r].data))

\* C4 as amended: when the elements results[1..] are valid Person records,
\* the response of a random-* route is a function of results[0] alone.
C4_FirstRecordAloneValidTail ==
    \A r \in Served :
        (AnsweredJson(r) /\ HasTail(upstream[r].data) /\ TailIsValid(upstream[r].data)) =>
            res[r] = ResponseTo(req[r].route, FirstOnly(upstream[r].data))

\* a list whose valid second record differs from its first has been answered 200
C4_Witness ==
    \E r \in Served :
        /\ AnsweredJson(r) /\ HasTail(upstream[r].data) /\ TailIsValid(upstream[r].data)
        /\ Get(upstream[r].data, "results").a[2] # Get(upstream[r].data, "results").a[1]
        /\ res[r].status = 200

\* C5 as stated: the details of a random-* validation failure is the ordered
\* list of the schema's errors, each naming its field by the dot-joined path,
\* the {field, message} form of POST /users.
C5_DotJoinedPaths ==
    \A r \in Served :
        (AnsweredJson(r) /\ IsInvalidResponse(res[r])) =>
            LET issues == RandomUserApiResponseSchema(upstream[r].data)
                details == res[r].body.details
            IN  /\ Len(details) = Len(issues)
                /\ \A i \in 1..Len(details) :
                      /\ "field" \in DOMAIN details[i]
                      /\ details[i].field = Join(issues[i].path)

\* C6 as stated: every GET /ping request is answered 200 {message: "pong"},
\* whatever its query string and body.
C6_AlwaysPong ==
    \A r \in Served :
        (pc[r] = "done" /\ req[r].route = "ping") =>
            res[r] = [status |-> 200, body |-> [message |-> "pong"]]

\* the error a random-* handler caught, as the operator log holds it
CaughtOther(r) == log[r] # <<>> /\ log[r][1].error.name # "ZodError"

GenericBody(route) ==
    CASE route = "random-person" -> [error |-> "Failed to fetch random person"]
      [] route = "random-address" -> [error |-> "Failed to fetch random address"]
      [] route = "random-login" -> [error |-> "Failed to fetch random login"]

\* C7: on a random-* route every failure other than a schema validation
\* failure (the fetch rejected, the body not JSON, an exception in the
\* handler) is answered 500 with the route's fixed body and nothing of the
\* error; the error is in the log.
C7_GenericFailure ==
    \A r \in Served :
        (pc[r] = "done" /\ req[r].route \in RandomRoutes) =>
            /\ upstream[r].k \in {"fetchRejected", "jsonRejected"} =>
                  /\ CaughtOther(r)
                  /\ log[r][1].error = upstream[r].error
            /\ CaughtOther(r) =>
                  res[r] = [status |-> 500, body |-> GenericBody(req[r].route)]
            /\ (res[r].status = 500 /\ ~IsInvalidResponse(res[r])) => CaughtOther(r)

\* a request whose upstream body was not JSON has been answered
C7_Witness ==
    \E r \in Served :
        /\ pc[r] = "done" /\ req[r].route \in RandomRoutes
        /\ upstream[r].k = "jsonRejected"
        /\ upstream[r].error.name = "SyntaxError"
        /\ res[r].status = 500

\* C10: on GET /random-login, schema-valid upstream data whose
\* results[0].registered.date is not a date is answered 500 "Failed to fetch
\* random login", never 200; and every 200 has username = results[0]'s
\* username and summary = username (registered on registeredDate).
C10_LoginDate ==
    \A r \in Served :
        (AnsweredJson(r) /\ req[r].route = "random-login"
            /\ ExpectedShape(upstream[r].data)) =>
            LET person == Get(upstream[r].data, "results").a[1]
            IN  /\ ~DateParse(Leaf(person, "registered", "date").s).valid =>
                      res[r] = [status |-> 500,
                                body |-> [error |-> "Failed to fetch random login"]]
                /\ res[r].status = 200 =>
                      /\ res[r].body.username = Leaf(person, "login", "username").s
                      /\ res[r].body.summary =
                            res[r].body.username \o " (registered on "
                                \o res[r].body.registeredDate \o ")"

\* valid data with an unparseable date has been answered
C10_Witness ==
    \E r \in Served :
        /\ AnsweredJson(r) /\ req[r].route = "random-login"
        /\ ExpectedShape(upstream[r].data)
        /\ Leaf(Get(upstream[r].data, "results").a[1], "registered", "date").s
              = <<"n", "o", "t", "-", "a", "-", "d", "a", "t", "e">>
        /\ res[r].status = 500

\* the response to a request handled with no other request in the process,
\* given what its own upstream call produced
AloneResponse(request, outcome) ==
    IF JsonMiddlewareRejects(request) THEN BadRequest
    ELSE IF request.route = "ping" THEN PingHandler(request)
    ELSE IF request.route = "users" THEN UsersHandler(request)
    ELSE IF outcome.k = "json" THEN ResponseTo(request.route, outcome.data)
    ELSE RandomCatch(request.route, outcome.error)

Waiting(r) == pc[r] \in {"awaitFetch", "awaitJson"}

\* C8: with requests interleaved in any way, a random-* request whose
\* upstream call never completes holds up no other request: every request
\* whose own upstream call does not stall is answered, exactly once, with the
\* response it would get if handled alone.
C8_Isolation ==
    \A r \in Concurrent :
        /\ [](pc[r] = "done" =>
                (sent[r] = 1 /\ res[r] = AloneResponse(req[r], upstream[r])))
        /\ [](Waiting(r) => sent[r] = 0)
        /\ [](Waiting(r) => <>(pc[r] = "done" \/ net[r] = "stalled"))

\* one request is stalled for good while another has been answered from its
\* own upstream data
C8_Witness ==
    \E r, q \in Served :
        /\ r # q
        /\ net[r] = "stalled"
        /\ pc[q] = "done" /\ req[q].route \in RandomRoutes
        /\ upstream[q].k = "json" /\ res[q].status = 200

=============================================================================
